---- MODULE Spec2Model ----
(***************************************************************************)
(* Streaming commentary pipeline of backend/main.py:                       *)
(*   - process_move_stream.generate  (POST /api/move-stream, SSE events)   *)
(*   - process_move                  (POST /api/move, JSON response)       *)
(*   - generate_tts_for_sentence     (per-sentence synthesis task)         *)
(* Text is a sequence of one-character strings, so that str.strip(), the   *)
(* terminator scan and concatenation are computed, not assumed.            *)
(***************************************************************************)
EXTENDS Integers, Sequences, FiniteSets, TLC

(* ---------------- bounds of the model ---------------- *)
\* chunks the token source delivers before it closes or raises
MaxFrags == 3
\* characters in one chunk's delta.content
MaxFragLen == 2
\* characters of generated text over one request
MaxTotal == 4
\* sleeps of one synthesis task before the 2 s wait has certainly expired
MaxPolls == 1
\* tokens the scripted source puts into one chunk
MaxTokensPerChunk == 3

(* ---------------- text ---------------- *)
\* a letter, whitespace, and two of the terminators of '.!?'
Chars == {"a", " ", ".", "?"}
Whitespace == {" "}
Terminators == {".", "!", "?"}

\* delta.content of a chunk; <<>> is a chunk whose content is None or ""
Fragments == UNION {[1..n -> Chars] : n \in 0..MaxFragLen}

\* exceptions the token source can raise; str(e) is the value itself
Errors == {"timeout", "transport"}

FALLBACK == <<"That move was so bad, even the AI is speechless!">>
NO_API_KEY == <<"Nice move! (API key not configured)">>
\* None: the empty tuple, so that it can be compared with a reference, a
\* result pair, a list of references and a response
None == <<>>

\* str.strip()
Strip(s) ==
    LET keep == {i \in 1..Len(s) : s[i] \notin Whitespace}
    IN  IF keep = {} THEN <<>>
        ELSE LET lo == CHOOSE i \in keep : \A j \in keep : i <= j
                 hi == CHOOSE i \in keep : \A j \in keep : j <= i
             IN  SubSeq(s, lo, hi)

\* any(p in text for p in ['.', '!', '?'])  /  for char in text: if char in '.!?'
HasTerminator(text) == \E i \in 1..Len(text) : text[i] \in Terminators

SentenceEvent(text, index) == [type |-> "sentence", text |-> text, index |-> index]
CompleteEvent(full) == [type |-> "complete", full_commentary |-> full]
ErrorEvent(message) == [type |-> "error", message |-> message]

(* ---------------- state ---------------- *)
VARIABLES
    \* process_move_stream.generate
    pc,                 \* "open" (awaiting acompletion), "iter" (async for), "done"
    current_sentence,
    sentence_count,
    full_commentary,
    events,             \* the records yielded so far, in order
    frags,              \* history: the chunks' contents delivered so far
    src_end             \* history: "none", "closed" (StopAsyncIteration), "raised"

VARIABLES
    \* module globals, lines 30-43
    daisys_client,      \* TRUE when the DaisysAPI client was created
    DAISYS_VOICE_ID,    \* TRUE when the voice id is set
    \* process_move
    pm_pc,              \* "start", "iter" (async for), "gather" (await gather), "done"
    pm_full_commentary,
    pm_current_sentence,
    pm_sentences,
    tts_tasks,          \* the tasks created at line 163, in creation order
    response,           \* None until the handler returns or raises
    chunk_count,        \* line 104: chunks read, with or without content
    pm_delivered,       \* history: the contents of the chunks read, concatenated
    pm_src_end          \* history: "none", "closed", "raised"

VARIABLES
    \* history of the synthesis tasks, kept only where a property needs it
    finished            \* [index, via] of the tasks that returned, in order of return

stream_vars == <<pc, current_sentence, sentence_count, full_commentary, events, frags, src_end>>
config_vars == <<daisys_client, DAISYS_VOICE_ID>>
move_vars == <<pm_pc, pm_full_commentary, pm_current_sentence, pm_sentences, tts_tasks,
               response, chunk_count, pm_delivered, pm_src_end>>
hist_vars == <<finished>>
vars == <<stream_vars, config_vars, move_vars, hist_vars>>

(* ---------------- process_move_stream.generate ---------------- *)
\* lines 281-296: one chunk of the async for loop
OnChunkNoIncrement(text, cur, cnt, full) ==
    IF text = <<>> THEN [cur |-> cur, cnt |-> cnt, full |-> full, out |-> <<>>]
    ELSE IF HasTerminator(text) /\ Strip(cur \o text) # <<>>
         THEN [cur |-> <<>>, cnt |-> cnt, full |-> full \o text,
               out |-> <<SentenceEvent(Strip(cur \o text), cnt)>>]
         ELSE [cur |-> cur \o text, cnt |-> cnt, full |-> full \o text, out |-> <<>>]

\* "current_sentence = text" instead of "current_sentence += text"
OnChunkNoCarry(text, cur, cnt, full) ==
    IF text = <<>> THEN [cur |-> cur, cnt |-> cnt, full |-> full, out |-> <<>>]
    ELSE IF HasTerminator(text) /\ Strip(text) # <<>>
         THEN [cur |-> <<>>, cnt |-> cnt + 1, full |-> full \o text,
               out |-> <<SentenceEvent(Strip(text), cnt)>>]
         ELSE [cur |-> text, cnt |-> cnt, full |-> full \o text, out |-> <<>>]

\* current_sentence = "" forgotten after the yield
OnChunkKeepsBuffer(text, cur, cnt, full) ==
    IF text = <<>> THEN [cur |-> cur, cnt |-> cnt, full |-> full, out |-> <<>>]
    ELSE IF HasTerminator(text) /\ Strip(cur \o text) # <<>>
         THEN [cur |-> cur \o text, cnt |-> cnt + 1, full |-> full \o text,
               out |-> <<SentenceEvent(Strip(cur \o text), cnt)>>]
         ELSE [cur |-> cur \o text, cnt |-> cnt, full |-> full \o text, out |-> <<>>]

OnChunk(text, cur, cnt, full) ==
    IF text = <<>>
    THEN [cur |-> cur, cnt |-> cnt, full |-> full, out |-> <<>>]
    ELSE LET cur1 == cur \o text
             full1 == full \o text
         IN  IF HasTerminator(text)
             THEN \* the first terminator of text: emit, reset, break
                  LET sentence == Strip(cur1)
                  IN  IF sentence # <<>>
                      THEN [cur |-> <<>>, cnt |-> cnt + 1, full |-> full1,
                            out |-> <<SentenceEvent(sentence, cnt)>>]
                      ELSE [cur |-> cur1, cnt |-> cnt, full |-> full1, out |-> <<>>]
             ELSE [cur |-> cur1, cnt |-> cnt, full |-> full1, out |-> <<>>]

\* lines 298-306: after the loop ended normally
OnCloseThenError(cur, cnt, full) ==
    (IF Strip(cur) # <<>> THEN <<SentenceEvent(Strip(cur), cnt)>> ELSE <<>>)
        \o <<CompleteEvent(Strip(full)), ErrorEvent("timeout")>>

\* "if current_sentence:" instead of "if current_sentence.strip():"
OnCloseUntrimmedTest(cur, cnt, full) ==
    (IF cur # <<>> THEN <<SentenceEvent(Strip(cur), cnt)>> ELSE <<>>)
        \o <<CompleteEvent(Strip(full))>>

OnClose(cur, cnt, full) ==
    (IF Strip(cur) # <<>> THEN <<SentenceEvent(Strip(cur), cnt)>> ELSE <<>>)
        \o <<CompleteEvent(Strip(full))>>

\* lines 308-311: except Exception as e
OnErrorFlushResidual(e, cur, cnt) ==
    (IF Strip(cur) # <<>> THEN <<SentenceEvent(Strip(cur), cnt)>> ELSE <<>>)
        \o <<ErrorEvent(e)>>

OnError(e, cur, cnt) == <<ErrorEvent(e)>>

\* line 267: await litellm.acompletion(...) returns the stream
StreamOpenStep ==
    /\ pc = "open"
    /\ pc' = "iter"
    /\ UNCHANGED <<current_sentence, sentence_count, full_commentary, events, frags, src_end>>

\* line 267 raises (timeout=5.0, transport, rejection): handled at 308-311
StreamOpenRaiseStep ==
    /\ pc = "open"
    /\ \E e \in Errors :
        events' = events \o OnError(e, current_sentence, sentence_count)
    /\ pc' = "done"
    /\ src_end' = "raised"
    /\ UNCHANGED <<current_sentence, sentence_count, full_commentary, frags>>

\* lines 280-296: the source delivers the chunk whose content is text
StreamChunkStep(text) ==
    /\ pc = "iter"
    /\ LET r == OnChunk(text, current_sentence, sentence_count, full_commentary)
       IN  /\ current_sentence' = r.cur
           /\ sentence_count' = r.cnt
           /\ full_commentary' = r.full
           /\ events' = events \o r.out
    /\ frags' = Append(frags, text)
    /\ UNCHANGED <<pc, src_end>>

\* line 280 raises while iterating: handled at 308-311
StreamIterRaiseStep ==
    /\ pc = "iter"
    /\ \E e \in Errors :
        events' = events \o OnError(e, current_sentence, sentence_count)
    /\ pc' = "done"
    /\ src_end' = "raised"
    /\ UNCHANGED <<current_sentence, sentence_count, full_commentary, frags>>

\* the source is exhausted: lines 298-306
StreamCloseStep ==
    /\ pc = "iter"
    /\ events' = events \o OnClose(current_sentence, sentence_count, full_commentary)
    /\ pc' = "done"
    /\ src_end' = "closed"
    /\ UNCHANGED <<current_sentence, sentence_count, full_commentary, frags>>

\* a request to /api/move-stream alone
StreamOpen == StreamOpenStep /\ UNCHANGED <<config_vars, move_vars, hist_vars>>

StreamOpenRaise == StreamOpenRaiseStep /\ UNCHANGED <<config_vars, move_vars, hist_vars>>

StreamChunk ==
    /\ Len(frags) < MaxFrags
    /\ \E text \in Fragments :
        /\ Len(full_commentary) + Len(text) <= MaxTotal
        /\ StreamChunkStep(text)
    /\ UNCHANGED <<config_vars, move_vars, hist_vars>>

StreamIterRaise == StreamIterRaiseStep /\ UNCHANGED <<config_vars, move_vars, hist_vars>>

StreamClose == StreamCloseStep /\ UNCHANGED <<config_vars, move_vars, hist_vars>>

(* ---------------- generate_tts_for_sentence ---------------- *)
\* get_take_audio_url(take.take_id): the reference of the take of sentence index
Url(index) == <<"url", index>>

\* what the collaborator does during one run of a task between two suspensions
RaiseOutcomes == {"raise_enter", "raise_generate_take", "raise_get_take",
                  "raise_get_take_audio_url", "raise_exit"}
\* from the first line of the coroutine to its first sleep or its return
StartOutcomes == RaiseOutcomes \cup {"complete", "pending"}
\* from a wake-up to the next sleep or the return; "timeout" is the while
\* condition found false, after which the URL is fetched anyway
WakeOutcomes == {"raise_get_take", "raise_get_take_audio_url", "raise_exit",
                 "complete", "pending", "timeout"}

NewTask(text, index) ==
    [text |-> text, index |-> index, state |-> "pending", polls |-> 0,
     result |-> None, raised |-> FALSE, called |-> FALSE]

\* lines 131-158, one run of the coroutine up to its next await or its return
RunTaskPropagate(t, client, voice, o) ==
    IF ~(client /\ voice)
    THEN [t EXCEPT !.state = "done", !.result = <<t.index, None>>]
    ELSE IF o \in RaiseOutcomes
         THEN [t EXCEPT !.state = "failed", !.polls = 0, !.raised = TRUE, !.called = TRUE]
         ELSE IF o = "pending"
              THEN [t EXCEPT !.state = "sleeping", !.polls = t.polls + 1, !.called = TRUE]
              ELSE [t EXCEPT !.state = "done", !.polls = 0,
                             !.result = <<t.index, Url(t.index)>>, !.called = TRUE]

RunTaskIgnoreVoice(t, client, voice, o) ==
    IF ~client
    THEN [t EXCEPT !.state = "done", !.result = <<t.index, None>>]
    ELSE IF o \in RaiseOutcomes
         THEN [t EXCEPT !.state = "done", !.polls = 0, !.result = <<t.index, None>>,
                        !.raised = TRUE, !.called = TRUE]
         ELSE IF o = "pending"
              THEN [t EXCEPT !.state = "sleeping", !.polls = t.polls + 1, !.called = TRUE]
              ELSE [t EXCEPT !.state = "done", !.polls = 0,
                             !.result = <<t.index, Url(t.index)>>, !.called = TRUE]

\* "start_time = time.time()" inside the loop: the wait never expires
RunTaskRestartWait(t, client, voice, o) ==
    IF ~(client /\ voice)
    THEN [t EXCEPT !.state = "done", !.result = <<t.index, None>>]
    ELSE IF o \in RaiseOutcomes
         THEN [t EXCEPT !.state = "done", !.polls = 0, !.result = <<t.index, None>>,
                        !.raised = TRUE, !.called = TRUE]
         ELSE IF o = "pending"
              THEN [t EXCEPT !.state = "sleeping", !.polls = t.polls + 1, !.called = TRUE]
              ELSE IF o = "timeout"
                   THEN [t EXCEPT !.state = "sleeping", !.polls = 0, !.called = TRUE]
                   ELSE [t EXCEPT !.state = "done", !.polls = 0,
                                  !.result = <<t.index, Url(t.index)>>, !.called = TRUE]

\* "return (index, None)" when the wait expired, instead of fetching the URL
RunTaskDiscardOnTimeout(t, client, voice, o) ==
    IF ~(client /\ voice)
    THEN [t EXCEPT !.state = "done", !.result = <<t.index, None>>]
    ELSE IF o \in RaiseOutcomes
         THEN [t EXCEPT !.state = "done", !.polls = 0, !.result = <<t.index, None>>,
                        !.raised = TRUE, !.called = TRUE]
         ELSE IF o = "pending"
              THEN [t EXCEPT !.state = "sleeping", !.polls = t.polls + 1, !.called = TRUE]
              ELSE IF o = "timeout"
                   THEN [t EXCEPT !.state = "done", !.polls = 0,
                                  !.result = <<t.index, None>>, !.called = TRUE]
                   ELSE [t EXCEPT !.state = "done", !.polls = 0,
                                  !.result = <<t.index, Url(t.index)>>, !.called = TRUE]

RunTask(t, client, voice, o) ==
    IF ~(client /\ voice)
    THEN \* line 158: no call to the collaborator
         [t EXCEPT !.state = "done", !.result = <<t.index, None>>]
    ELSE IF o \in RaiseOutcomes
         THEN \* lines 155-157: except Exception
              [t EXCEPT !.state = "done", !.polls = 0, !.result = <<t.index, None>>,
                        !.raised = TRUE, !.called = TRUE]
         ELSE IF o = "pending"
              THEN \* line 150: await asyncio.sleep(0.05)
                   [t EXCEPT !.state = "sleeping", !.polls = t.polls + 1, !.called = TRUE]
              ELSE \* line 149 (status 'complete') or line 154 (wait expired)
                   [t EXCEPT !.state = "done", !.polls = 0,
                             !.result = <<t.index, Url(t.index)>>, !.called = TRUE]

(* ---------------- process_move ---------------- *)
\* lines 107-115: one chunk of the async for loop
\* sentences.append(current_sentence) without .strip()
OnMoveChunkNoStrip(text, cur, full, sents) ==
    IF text = <<>>
    THEN [cur |-> cur, full |-> full, sents |-> sents]
    ELSE IF HasTerminator(text)
         THEN [cur |-> <<>>, full |-> full \o text, sents |-> Append(sents, cur \o text)]
         ELSE [cur |-> cur \o text, full |-> full \o text, sents |-> sents]

OnMoveChunk(text, cur, full, sents) ==
    IF text = <<>>
    THEN [cur |-> cur, full |-> full, sents |-> sents]
    ELSE IF HasTerminator(text)
         THEN [cur |-> <<>>, full |-> full \o text, sents |-> Append(sents, Strip(cur \o text))]
         ELSE [cur |-> cur \o text, full |-> full \o text, sents |-> sents]

\* lines 120-121: the remaining text as a sentence
WithResidual(cur, sents) ==
    IF Strip(cur) # <<>> THEN Append(sents, Strip(cur)) ELSE sents

\* lines 161-164: one task per non-empty sentence, index from enumerate()
RECURSIVE SpawnFrom(_, _)
SpawnFrom(sents, i) ==
    IF i > Len(sents) THEN <<>>
    ELSE (IF sents[i] # <<>> THEN <<NewTask(sents[i], i - 1)>> ELSE <<>>)
            \o SpawnFrom(sents, i + 1)
\* tts_tasks.append(task) after the loop instead of inside it
SpawnLastOnly(sents) ==
    IF sents = <<>> THEN <<>>
    ELSE <<NewTask(sents[Len(sents)], Len(sents) - 1)>>

Spawn(sents) == SpawnFrom(sents, 1)

\* line 170: results.sort(key=lambda x: x[0])
\* (a stable sort: the result at position p is the element that has p - 1
\* elements before it in the order by key, ties by position)
SortByIndex(rs) ==
    [p \in 1..Len(rs) |->
        rs[CHOOSE k \in 1..Len(rs) :
              Cardinality({j \in 1..Len(rs) :
                              \/ rs[j][1] < rs[k][1]
                              \/ (rs[j][1] = rs[k][1] /\ j < k)}) = p - 1]]

\* line 171 without its "if url"
RECURSIVE UrlsOfKeepAbsent(_)
UrlsOfKeepAbsent(rs) ==
    IF rs = <<>> THEN <<>> ELSE <<rs[1][2]>> \o UrlsOfKeepAbsent(Tail(rs))

\* line 171: [url for _, url in results if url]
RECURSIVE UrlsOf(_)
UrlsOf(rs) ==
    IF rs = <<>> THEN <<>>
    ELSE (IF rs[1][2] # None THEN <<rs[1][2]>> ELSE <<>>)
            \o UrlsOf(SubSeq(rs, 2, Len(rs)))

\* lines 166-181: the response built from the gathered results
Respond(results, commentary) ==
    LET audio_urls == IF results = <<>> THEN <<>> ELSE UrlsOf(SortByIndex(results))
    IN  [kind |-> "ok",
         commentary |-> commentary,
         audioUrl |-> IF audio_urls # <<>> THEN audio_urls[1] ELSE None,
         audioUrls |-> IF Len(audio_urls) > 1 THEN audio_urls ELSE None]

\* lines 68-71 and 97-100: a canned commentary, audioUrl=None
Canned(text) ==
    [kind |-> "ok", commentary |-> text, audioUrl |-> None, audioUrls |-> None]

\* lines 183-185: raise HTTPException(status_code=500, detail=str(e))
Http500(e) == [kind |-> "http500", detail |-> e]

\* lines 65-71: OPENAI_API_KEY is not set
MoveNoApiKeyStep ==
    /\ pm_pc = "start"
    /\ response' = Canned(NO_API_KEY)
    /\ pm_pc' = "done"
    /\ UNCHANGED <<pm_full_commentary, pm_current_sentence, pm_sentences, tts_tasks,
                   chunk_count, pm_delivered, pm_src_end>>

\* lines 80-91: acompletion returns the stream
MoveOpenStep ==
    /\ pm_pc = "start"
    /\ pm_pc' = "iter"
    /\ UNCHANGED <<pm_full_commentary, pm_current_sentence, pm_sentences, tts_tasks,
                   response, chunk_count, pm_delivered, pm_src_end>>

\* lines 92-100: acompletion raises (timeout=10.0, transport, rejection)
MoveOpenRaiseStep ==
    /\ pm_pc = "start"
    /\ response' = Canned(FALLBACK)
    /\ pm_pc' = "done"
    /\ pm_src_end' = "raised"
    /\ UNCHANGED <<pm_full_commentary, pm_current_sentence, pm_sentences, tts_tasks,
                   chunk_count, pm_delivered>>

\* lines 105-115: the source delivers the chunk whose content is text
MoveChunkStep(text) ==
    /\ pm_pc = "iter"
    /\ LET r == OnMoveChunk(text, pm_current_sentence, pm_full_commentary, pm_sentences)
       IN  /\ pm_current_sentence' = r.cur
           /\ pm_full_commentary' = r.full
           /\ pm_sentences' = r.sents
    /\ pm_delivered' = pm_delivered \o text
    /\ chunk_count' = chunk_count + 1
    /\ UNCHANGED <<pm_pc, tts_tasks, response, pm_src_end>>

\* line 105 raises while iterating: only the outer handler, lines 183-185
MoveIterRaiseStep ==
    /\ pm_pc = "iter"
    /\ \E e \in Errors : response' = Http500(e)
    /\ pm_pc' = "done"
    /\ pm_src_end' = "raised"
    /\ UNCHANGED <<pm_full_commentary, pm_current_sentence, pm_sentences, tts_tasks,
                   chunk_count, pm_delivered>>

\* the source is exhausted: lines 117-168 up to the await of gather, or up to
\* the return at 177 when no task was created
MoveCloseStep ==
    /\ pm_pc = "iter"
    /\ pm_src_end' = "closed"
    /\ LET sents == WithResidual(pm_current_sentence, pm_sentences)
           tasks == Spawn(sents)
       IN  /\ pm_sentences' = sents
           /\ tts_tasks' = tasks
           /\ IF tasks = <<>>
              THEN /\ response' = Respond(<<>>, Strip(pm_full_commentary))
                   /\ pm_pc' = "done"
              ELSE /\ response' = response
                   /\ pm_pc' = "gather"
    /\ UNCHANGED <<pm_full_commentary, pm_current_sentence, chunk_count, pm_delivered>>

\* the event loop runs the created task k for the first time, in creation
\* order; o is what the collaborator does during that run
TaskStartStep(k, o) ==
    /\ pm_pc = "gather"
    /\ tts_tasks[k].state = "pending"
    /\ \A j \in 1..(k - 1) : tts_tasks[j].state # "pending"
    /\ tts_tasks' = [tts_tasks EXCEPT
                        ![k] = RunTask(tts_tasks[k], daisys_client, DAISYS_VOICE_ID, o)]
    /\ UNCHANGED <<pm_pc, pm_full_commentary, pm_current_sentence, pm_sentences,
                   response, chunk_count, pm_delivered, pm_src_end>>

\* the sleep of line 150 of task k ends and it runs to its next sleep or its
\* return; every created task is already in the loop's ready queue when gather
\* is awaited, so all of them have run once before the first timer fires
TaskWakeStep(k, o) ==
    /\ pm_pc = "gather"
    /\ tts_tasks[k].state = "sleeping"
    /\ \A j \in 1..Len(tts_tasks) : tts_tasks[j].state # "pending"
    /\ o = "pending" => tts_tasks[k].polls < MaxPolls
    /\ tts_tasks' = [tts_tasks EXCEPT
                        ![k] = RunTask(tts_tasks[k], daisys_client, DAISYS_VOICE_ID, o)]
    /\ UNCHANGED <<pm_pc, pm_full_commentary, pm_current_sentence, pm_sentences,
                   response, chunk_count, pm_delivered, pm_src_end>>

\* line 168: gather returns when every task has returned, and re-raises the
\* first exception of a task (then caught at 183-185); lines 169-181
MoveGatherStep ==
    /\ pm_pc = "gather"
    /\ IF \E k \in 1..Len(tts_tasks) : tts_tasks[k].state = "failed"
       THEN \E k \in 1..Len(tts_tasks) :
                /\ tts_tasks[k].state = "failed"
                /\ \E e \in Errors : response' = Http500(e)
       ELSE /\ \A k \in 1..Len(tts_tasks) : tts_tasks[k].state = "done"
            /\ response' = Respond([k \in 1..Len(tts_tasks) |-> tts_tasks[k].result],
                                   Strip(pm_full_commentary))
    /\ pm_pc' = "done"
    /\ UNCHANGED <<pm_full_commentary, pm_current_sentence, pm_sentences, tts_tasks,
                   chunk_count, pm_delivered, pm_src_end>>

\* line 168: cancelling the handler while it awaits gather cancels the gather
\* future, which cancels every task that has not returned; the handler resumes
\* with CancelledError only when all of them have ended
CancelAwaitedOnly(tasks) ==
    [k \in 1..Len(tasks) |->
        IF /\ tasks[k].state \in {"pending", "sleeping"}
           /\ \A j \in 1..(k - 1) : tasks[j].state = "done"
        THEN [tasks[k] EXCEPT !.state = "cancelled", !.polls = 0]
        ELSE tasks[k]]

CancelChildren(tasks) ==
    [k \in 1..Len(tasks) |->
        IF tasks[k].state \in {"pending", "sleeping"}
        THEN [tasks[k] EXCEPT !.state = "cancelled", !.polls = 0]
        ELSE tasks[k]]

\* the request's task is cancelled at one of its awaits (lines 81, 105, 168);
\* CancelledError is not an Exception, so lines 92 and 183 do not catch it
Cancelled == [kind |-> "cancelled"]

MoveCancelStep ==
    /\ pm_pc \in {"start", "iter", "gather"}
    /\ tts_tasks' = CancelChildren(tts_tasks)
    /\ response' = Cancelled
    /\ pm_pc' = "done"
    /\ UNCHANGED <<pm_full_commentary, pm_current_sentence, pm_sentences,
                   chunk_count, pm_delivered, pm_src_end>>

\* a request to /api/move alone
MoveNoApiKey == MoveNoApiKeyStep /\ UNCHANGED <<config_vars, stream_vars, hist_vars>>

MoveOpen == MoveOpenStep /\ UNCHANGED <<config_vars, stream_vars, hist_vars>>

MoveOpenRaise == MoveOpenRaiseStep /\ UNCHANGED <<config_vars, stream_vars, hist_vars>>

MoveChunk ==
    /\ chunk_count < MaxFrags
    /\ \E text \in Fragments :
        /\ Len(pm_full_commentary) + Len(text) <= MaxTotal
        /\ MoveChunkStep(text)
    /\ UNCHANGED <<config_vars, stream_vars, hist_vars>>

MoveIterRaise == MoveIterRaiseStep /\ UNCHANGED <<config_vars, stream_vars, hist_vars>>

MoveClose == MoveCloseStep /\ UNCHANGED <<config_vars, stream_vars, hist_vars>>

TaskStart ==
    /\ \E k \in 1..Len(tts_tasks) : \E o \in StartOutcomes : TaskStartStep(k, o)
    /\ UNCHANGED <<config_vars, stream_vars, hist_vars>>

TaskWake ==
    /\ \E k \in 1..Len(tts_tasks) : \E o \in WakeOutcomes : TaskWakeStep(k, o)
    /\ UNCHANGED <<config_vars, stream_vars, hist_vars>>

MoveGather == MoveGatherStep /\ UNCHANGED <<config_vars, stream_vars, hist_vars>>

MoveCancel == MoveCancelStep /\ UNCHANGED <<config_vars, stream_vars, hist_vars>>

StreamIdle ==
    /\ pc = "open"
    /\ current_sentence = <<>>
    /\ sentence_count = 0
    /\ full_commentary = <<>>
    /\ events = <<>>
    /\ frags = <<>>
    /\ src_end = "none"

MoveIdle ==
    /\ pm_pc = "start"
    /\ pm_full_commentary = <<>>
    /\ pm_current_sentence = <<>>
    /\ pm_sentences = <<>>
    /\ tts_tasks = <<>>
    /\ response = None
    /\ chunk_count = 0
    /\ pm_delivered = <<>>
    /\ pm_src_end = "none"
    /\ finished = <<>>

\* one request to /api/move-stream; the endpoint never touches the synthesis client
Init ==
    /\ StreamIdle
    /\ MoveIdle
    /\ daisys_client = FALSE
    /\ DAISYS_VOICE_ID = FALSE

Next ==
    \/ StreamOpen
    \/ StreamOpenRaise
    \/ StreamChunk
    \/ StreamIterRaise
    \/ StreamClose

Spec == Init /\ [][Next]_vars

\* one request to /api/move, under each configuration of lines 30-43
InitMove ==
    /\ StreamIdle
    /\ MoveIdle
    /\ daisys_client \in BOOLEAN
    /\ DAISYS_VOICE_ID \in BOOLEAN

NextMove ==
    \/ MoveNoApiKey
    \/ MoveOpen
    \/ MoveOpenRaise
    \/ MoveChunk
    \/ MoveIterRaise
    \/ MoveClose
    \/ TaskStart
    \/ TaskWake
    \/ MoveGather

SpecMove == InitMove /\ [][NextMove]_vars

\* one request to /api/move that the server may cancel at any await
NextCancel ==
    \/ MoveNoApiKey
    \/ MoveOpen
    \/ MoveOpenRaise
    \/ MoveChunk
    \/ MoveIterRaise
    \/ MoveClose
    \/ TaskStart
    \/ TaskWake
    \/ MoveGather
    \/ MoveCancel

SpecCancel == InitMove /\ [][NextCancel]_vars

\* the dispatcher with its history: a source that delivers one terminated
\* sentence per chunk, and for every task that returns, when and how it did
TtsFragments == {<<".">>}

TtsChunk ==
    /\ chunk_count < MaxFrags
    /\ \E text \in TtsFragments :
        /\ Len(pm_full_commentary) + Len(text) <= MaxTotal
        /\ MoveChunkStep(text)
    /\ UNCHANGED <<config_vars, stream_vars, hist_vars>>

\* how a run with outcome o ended: line 158, 157, 149 or 154
Via(o) ==
    IF ~(daisys_client /\ DAISYS_VOICE_ID) THEN "unconfigured"
    ELSE IF o \in RaiseOutcomes THEN "raise" ELSE o

Returned(k, o) ==
    IF tts_tasks'[k].state = "done"
    THEN Append(finished, [index |-> tts_tasks[k].index, via |-> Via(o)])
    ELSE finished

TtsTaskStart ==
    /\ \E k \in 1..Len(tts_tasks) : \E o \in StartOutcomes :
        /\ TaskStartStep(k, o)
        /\ finished' = Returned(k, o)
    /\ UNCHANGED <<config_vars, stream_vars>>

TtsTaskWake ==
    /\ \E k \in 1..Len(tts_tasks) : \E o \in WakeOutcomes :
        /\ TaskWakeStep(k, o)
        /\ finished' = Returned(k, o)
    /\ UNCHANGED <<config_vars, stream_vars>>

NextTts ==
    \/ MoveOpen
    \/ TtsChunk
    \/ MoveClose
    \/ TtsTaskStart
    \/ TtsTaskWake
    \/ MoveGather

SpecTts == InitMove /\ [][NextTts]_vars

\* a scripted token source: the text "Nice move. Truly awful. " arrives token by
\* token, one to MaxTokensPerChunk tokens per chunk, and the source may close
\* or raise after any chunk
ScenarioTokens ==
    << <<"N", "i", "c", "e">>,
       <<" ">>,
       <<"m", "o", "v", "e">>,
       <<".">>,
       <<" ">>,
       <<"T", "r", "u", "l", "y">>,
       <<" ">>,
       <<"a", "w", "f", "u", "l">>,
       <<".">>,
       <<" ">> >>

RECURSIVE Concat(_)
Concat(fs) == IF fs = <<>> THEN <<>> ELSE Head(fs) \o Concat(SubSeq(fs, 2, Len(fs)))

\* tokens of the script that the chunks read so far have used up
TokensRead ==
    CHOOSE t \in 0..Len(ScenarioTokens) :
        Len(Concat(SubSeq(ScenarioTokens, 1, t))) = Len(Concat(frags))

ScenarioChunk ==
    /\ \E n \in 1..MaxTokensPerChunk :
        /\ TokensRead + n <= Len(ScenarioTokens)
        /\ StreamChunkStep(Concat(SubSeq(ScenarioTokens, TokensRead + 1, TokensRead + n)))
    /\ UNCHANGED <<config_vars, move_vars, hist_vars>>

NextScenario ==
    \/ StreamOpen
    \/ StreamOpenRaise
    \/ ScenarioChunk
    \/ StreamIterRaise
    \/ StreamClose

SpecScenario == Init /\ [][NextScenario]_vars

\* one token source read by both endpoints: the same chunks, the same end
LockstepOpen ==
    /\ StreamOpenStep
    /\ MoveOpenStep
    /\ UNCHANGED <<config_vars, hist_vars>>

LockstepOpenRaise ==
    /\ StreamOpenRaiseStep
    /\ MoveOpenRaiseStep
    /\ UNCHANGED <<config_vars, hist_vars>>

LockstepChunk ==
    /\ Len(frags) < MaxFrags
    /\ \E text \in Fragments :
        /\ Len(full_commentary) + Len(text) <= MaxTotal
        /\ StreamChunkStep(text)
        /\ MoveChunkStep(text)
    /\ UNCHANGED <<config_vars, hist_vars>>

LockstepIterRaise ==
    /\ StreamIterRaiseStep
    /\ MoveIterRaiseStep
    /\ UNCHANGED <<config_vars, hist_vars>>

LockstepClose ==
    /\ StreamCloseStep
    /\ MoveCloseStep
    /\ UNCHANGED <<config_vars, hist_vars>>

NextLockstep ==
    \/ LockstepOpen
    \/ LockstepOpenRaise
    \/ LockstepChunk
    \/ LockstepIterRaise
    \/ LockstepClose

SpecLockstep == Init /\ [][NextLockstep]_vars

\* both handlers on one source, and the synthesis tasks of process_move, under
\* the scheduling of the event loop: a task that can run is run, a sleep that
\* was started ends, a join whose tasks have all returned returns.  The token
\* source is not scheduled by the program and may stay silent.
\* The content of a chunk does not enter any loop condition: a chunk is one
\* character of a sentence or one terminator.
LiveFragments == {<<"a">>, <<".">>}

LiveChunk ==
    /\ Len(frags) < MaxFrags
    /\ \E text \in LiveFragments :
        /\ Len(full_commentary) + Len(text) <= MaxTotal
        /\ StreamChunkStep(text)
        /\ MoveChunkStep(text)
    /\ UNCHANGED <<config_vars, hist_vars>>

NextLive ==
    \/ LockstepOpen
    \/ LockstepOpenRaise
    \/ LiveChunk
    \/ LockstepIterRaise
    \/ LockstepClose
    \/ TaskStart
    \/ TaskWake
    \/ MoveGather

SpecLive ==
    /\ InitMove
    /\ [][NextLive]_vars
    /\ WF_vars(TaskStart)
    /\ WF_vars(TaskWake)
    /\ WF_vars(MoveGather)

(* ---------------- process_move_stream: properties ---------------- *)
IsTerminal(ev) == ev.type \in {"complete", "error"}
SentenceAt == {i \in 1..Len(events) : events[i].type = "sentence"}
TerminalAt == {i \in 1..Len(events) : IsTerminal(events[i])}
CountTerminators(text) == Cardinality({i \in 1..Len(text) : text[i] \in Terminators})
\* the text after the last terminator character of s
AfterLastTerminator(s) ==
    LET ts == {i \in 1..Len(s) : s[i] \in Terminators}
    IN  IF ts = {} THEN s
        ELSE SubSeq(s, (CHOOSE i \in ts : \A j \in ts : j <= i) + 1, Len(s))

\* C1: no event of any type follows a 'complete' or 'error' event, and once the
\* token source has closed or raised exactly one terminal event has been emitted.
C1_SingleTermination ==
    /\ \A i \in TerminalAt : i = Len(events)
    /\ src_end # "none" => Cardinality(TerminalAt) = 1
    /\ src_end = "none" => TerminalAt = {}

\* the source raised after two sentences and a residual were read
C1_Witness ==
    /\ src_end = "raised"
    /\ Cardinality(SentenceAt) = 2
    /\ Strip(current_sentence) # <<>>
    /\ events[Len(events)].type = "error"

\* C2: the sentence events carry the indices 0, 1, 2, ... in emission order,
\* the residual sentence emitted at end of stream included.
C2_ContiguousIndices ==
    \A i \in SentenceAt :
        events[i].index = Cardinality({j \in SentenceAt : j < i})

\* two terminated sentences, then the residual as the third sentence
C2_Witness ==
    /\ src_end = "closed"
    /\ Cardinality(SentenceAt) = 3
    /\ \E i \in SentenceAt : events[i].index = 2 /\ ~HasTerminator(events[i].text)

\* C3: a stream whose chunks hold exactly k terminator characters yields at
\* least k sentences, and k plus one when a non-blank trailing partial remains.
C3_SentencePerTerminator ==
    src_end = "closed" =>
        Cardinality(SentenceAt) >=
            CountTerminators(Concat(frags))
                + (IF Strip(AfterLastTerminator(Concat(frags))) # <<>> THEN 1 ELSE 0)

\* C4: every sentence emitted while the source is still producing is the buffer
\* cut at the terminator, so it ends with a terminator character.
C4_SentenceEndsWithTerminator ==
    src_end = "none" =>
        \A i \in SentenceAt :
            events[i].text[Len(events[i].text)] \in Terminators

\* C5: a source that fails before any chunk is delivered yields exactly the
\* fallback sentence followed by complete with the same text, and no error.
C5_FallbackBeforeContent ==
    (src_end = "raised" /\ frags = <<>>) =>
        events = <<SentenceEvent(FALLBACK, 0), CompleteEvent(FALLBACK)>>

\* C6: when the source raises after delivering content, the sentence events
\* already emitted are followed by exactly one error event: no complete, no
\* fallback sentence, no repeated sentence, and the residual is not emitted.
C6_ErrorAfterContent ==
    (src_end = "raised" /\ Concat(frags) # <<>>) =>
        /\ events[Len(events)].type = "error"
        /\ \A i \in 1..(Len(events) - 1) : events[i].type = "sentence"
        /\ \A i \in SentenceAt :
              /\ events[i].text # FALLBACK
              /\ HasTerminator(events[i].text)
        /\ Cardinality(SentenceAt)
              = Cardinality({j \in 1..Len(frags) : HasTerminator(frags[j])})
        /\ \A i, j \in SentenceAt : i < j => events[i].index < events[j].index

\* the source raised after one sentence and with a non-blank residual
C6_Witness ==
    /\ src_end = "raised"
    /\ Cardinality(SentenceAt) = 1
    /\ Strip(current_sentence) # <<>>
    /\ Len(events) = 2

(* ---------------- process_move: properties ---------------- *)
Configured == daisys_client /\ DAISYS_VOICE_ID
TaskIds == 1..Len(tts_tasks)
\* the audio references the response carries
ResponseUrls ==
    IF response.audioUrls # None
    THEN {response.audioUrls[i] : i \in 1..Len(response.audioUrls)}
    ELSE IF response.audioUrl # None THEN {response.audioUrl} ELSE {}

\* C7: a failure of the token source before any content was produced, at open
\* or while iterating, is answered with the canned fallback commentary as a
\* successful response.
C7_FallbackBeforeContent ==
    (pm_src_end = "raised" /\ pm_delivered = <<>>) => response = Canned(FALLBACK)

\* C8: every sentence the segmenter has completed has had its synthesis task
\* started, also while the token source is still producing.
C8_SpawnAtCompletion ==
    \A i \in 1..Len(pm_sentences) :
        \E k \in TaskIds : tts_tasks[k].index = i - 1

\* C9: a synthesis call that raises gives (index, absent) for its own sentence
\* only: no task fails or is cancelled, every other task keeps the result of
\* its own calls, and the request completes with the commentary and with the
\* references of the tasks that did not raise.
C9_SynthesisFailureIsolated ==
    /\ \A k \in TaskIds :
          /\ tts_tasks[k].state \in {"pending", "sleeping", "done"}
          /\ tts_tasks[k].state = "done" =>
                tts_tasks[k].result =
                    <<tts_tasks[k].index,
                      IF Configured /\ ~tts_tasks[k].raised
                      THEN Url(tts_tasks[k].index) ELSE None>>
    /\ (pm_pc = "done" /\ pm_src_end = "closed") =>
          /\ response.kind = "ok"
          /\ response.commentary = Strip(pm_delivered)
          /\ ResponseUrls = {Url(tts_tasks[k].index) :
                               k \in {j \in TaskIds : Configured /\ ~tts_tasks[j].raised}}

\* the first sentence's synthesis raised, the second one's returned a reference
C9_Witness ==
    /\ pm_pc = "done"
    /\ Configured
    /\ Len(tts_tasks) >= 2
    /\ tts_tasks[1].raised
    /\ tts_tasks[2].result = <<1, Url(1)>>
    /\ response.kind = "ok"

\* C10: with no client or no voice id no task calls the collaborator, every
\* task yields (index, absent), and the request completes with the trimmed
\* concatenation of all fragments and no audio reference.
C10_UnconfiguredIsAbsent ==
    ~Configured =>
        /\ \A k \in TaskIds :
              /\ ~tts_tasks[k].called
              /\ tts_tasks[k].state \in {"pending", "done"}
              /\ tts_tasks[k].state = "done" =>
                    tts_tasks[k].result = <<tts_tasks[k].index, None>>
        /\ (pm_pc = "done" /\ pm_src_end = "closed") =>
              response = Canned(Strip(pm_delivered))

\* a client without a voice id, two sentences dispatched, the request answered
C10_Witness ==
    /\ daisys_client /\ ~DAISYS_VOICE_ID
    /\ pm_pc = "done"
    /\ Len(tts_tasks) >= 2
    /\ \A k \in TaskIds : tts_tasks[k].state = "done"
    /\ response.kind = "ok"

\* C11: when process_move returns, one task was spawned per sentence, every
\* task has returned exactly one (index, reference-or-absent) result, and no
\* task is still pending or sleeping.
C11_AllTasksJoined ==
    (pm_pc = "done" /\ pm_src_end = "closed") =>
        /\ response.kind = "ok"
        /\ Len(tts_tasks) = Len(pm_sentences)
        /\ \A k \in TaskIds :
              /\ tts_tasks[k].index = k - 1
              /\ tts_tasks[k].text = pm_sentences[k]
              /\ tts_tasks[k].state = "done"
              /\ Len(tts_tasks[k].result) = 2
              /\ tts_tasks[k].result[1] = k - 1
              /\ \/ tts_tasks[k].result[2] = None
                 \/ tts_tasks[k].result[2] = Url(k - 1)

\* three sentences, a configured collaborator, the response returned
C11_Witness ==
    /\ pm_pc = "done"
    /\ Configured
    /\ Len(pm_sentences) = 3
    /\ Len(tts_tasks) = 3
    /\ response.kind = "ok"

\* C12: on every exit of process_move (return, exception, cancellation) each
\* synthesis task of the request has returned or has been cancelled; none is
\* left pending or sleeping.
C12_NoTaskOutlivesRequest ==
    pm_pc = "done" =>
        \A k \in TaskIds : tts_tasks[k].state \in {"done", "cancelled"}

\* cancelled with one task returned and another one cancelled inside its wait
C12_Witness ==
    /\ pm_pc = "done"
    /\ response = Cancelled
    /\ Len(tts_tasks) >= 2
    /\ \E k \in TaskIds : tts_tasks[k].state = "done"
    /\ \E k \in TaskIds : tts_tasks[k].state = "cancelled" /\ tts_tasks[k].called

(* ---------------- both segmentation loops on one token source ---------------- *)
\* the texts of the sentence events, in emission order
StreamSentences ==
    [i \in 1..Cardinality(SentenceAt) |->
        events[CHOOSE j \in SentenceAt : Cardinality({h \in SentenceAt : h <= j}) = i].text]

\* text splits into consecutive pieces whose trimmed forms are the sentences
\* sents, in order, with only whitespace left over
RECURSIVE Covers(_, _)
Covers(sents, text) ==
    IF sents = <<>> THEN Strip(text) = <<>>
    ELSE \E c \in 1..Len(text) :
            /\ Strip(SubSeq(text, 1, c)) = sents[1]
            /\ Covers(SubSeq(sents, 2, Len(sents)), SubSeq(text, c + 1, Len(text)))

BothClosed == src_end = "closed" /\ pm_src_end = "closed"

\* C13: when the source ends normally the sentences, in index order, cover the
\* concatenation of all fragments once and in order; only whitespace at the
\* sentence boundaries is dropped (both segmentation loops).
C13_SentencesCoverText ==
    BothClosed =>
        /\ Covers(StreamSentences, Concat(frags))
        /\ Covers(pm_sentences, Concat(frags))
        /\ \A i \in 1..Len(StreamSentences) : StreamSentences[i] # <<>>
        /\ \A i \in 1..Len(pm_sentences) : pm_sentences[i] # <<>>

\* two sentences with whitespace dropped at a boundary
C13_Witness ==
    /\ BothClosed
    /\ Len(StreamSentences) = 2
    /\ Len(StreamSentences[1]) + Len(StreamSentences[2]) < Len(Concat(frags))

\* C18: on a source that ends normally both loops give the same sentence
\* texts with the same indices, and the same full commentary.
C18_SegmentersAgree ==
    BothClosed =>
        /\ pm_sentences = StreamSentences
        /\ \A i \in SentenceAt : events[i].text = pm_sentences[events[i].index + 1]
        /\ \A k \in 1..Len(tts_tasks) :
              tts_tasks[k].text = StreamSentences[tts_tasks[k].index + 1]
        /\ Len(tts_tasks) = Len(StreamSentences)
        /\ events[Len(events)] = CompleteEvent(Strip(pm_full_commentary))

\* three sentences, the last one the residual, whitespace trimmed from one
C18_Witness ==
    /\ BothClosed
    /\ Len(pm_sentences) = 3
    /\ ~HasTerminator(pm_sentences[3])
    /\ \E j \in 1..Len(frags) : \E i \in 1..Len(frags[j]) : frags[j][i] \in Whitespace

(* ---------------- end of stream ---------------- *)
\* the chunks read after the last chunk that holds a terminator, concatenated
RECURSIVE ResidualOf(_)
ResidualOf(fs) ==
    IF fs = <<>> THEN <<>>
    ELSE IF HasTerminator(fs[Len(fs)]) THEN <<>>
         ELSE ResidualOf(SubSeq(fs, 1, Len(fs) - 1)) \o fs[Len(fs)]
TerminatedChunks == Cardinality({j \in 1..Len(frags) : HasTerminator(frags[j])})

\* C14: on normal end of the source the residual is emitted as one last
\* sentence exactly when it is non-empty after trimming, and one complete event
\* follows every sentence event, with the trimmed concatenation of all chunks.
C14_ResidualThenComplete ==
    src_end = "closed" =>
        LET res == Strip(ResidualOf(frags))
            n == Len(events)
        IN  /\ events[n] = CompleteEvent(Strip(Concat(frags)))
            /\ \A i \in 1..(n - 1) : events[i].type = "sentence"
            /\ n - 1 = TerminatedChunks + (IF res # <<>> THEN 1 ELSE 0)
            /\ res # <<>> => events[n - 1] = SentenceEvent(res, TerminatedChunks)

\* a sentence, then a residual of whitespace only, then the normal end
C14_Witness ==
    /\ src_end = "closed"
    /\ ResidualOf(frags) # <<>>
    /\ Strip(ResidualOf(frags)) = <<>>
    /\ TerminatedChunks >= 1
    /\ Len(events) = TerminatedChunks + 1

(* ---------------- the buffer across chunks ---------------- *)
\* the position in frags of the i-th chunk that holds a terminator (0 for i = 0)
TerminatedChunkAt(i) ==
    IF i = 0 THEN 0
    ELSE CHOOSE j \in 1..Len(frags) :
            /\ HasTerminator(frags[j])
            /\ Cardinality({h \in 1..j : HasTerminator(frags[h])}) = i

ScenarioFrags ==
    << <<"N", "i", "c", "e", " ">>,
       <<"m", "o", "v", "e">>,
       <<".", " ">>,
       <<"T", "r", "u", "l", "y">>,
       <<" ">>,
       <<"a", "w", "f", "u", "l", ".", " ">> >>

\* C15: the buffer persists across chunks: while the source produces, the i-th
\* sentence is emitted when the i-th chunk holding a terminator arrives and is
\* the trimmed text of all chunks since the previous such chunk; the chunks
\* "Nice ", "move", ". ", "Truly", " ", "awful. " give (0, "Nice move."),
\* (1, "Truly awful.") and complete "Nice move. Truly awful.".
C15_BufferAcrossChunks ==
    /\ src_end # "raised" =>
          /\ Cardinality(SentenceAt) >= TerminatedChunks
          /\ \A i \in 1..TerminatedChunks :
                events[i] = SentenceEvent(
                    Strip(Concat(SubSeq(frags, TerminatedChunkAt(i - 1) + 1,
                                        TerminatedChunkAt(i)))),
                    i - 1)
          /\ src_end = "none" => Len(events) = TerminatedChunks
    /\ (frags = ScenarioFrags /\ src_end = "closed") =>
          events = << SentenceEvent(<<"N", "i", "c", "e", " ", "m", "o", "v", "e", ".">>, 0),
                      SentenceEvent(<<"T", "r", "u", "l", "y", " ", "a", "w", "f", "u", "l", ".">>, 1),
                      CompleteEvent(<<"N", "i", "c", "e", " ", "m", "o", "v", "e", ".", " ", "T", "r", "u", "l", "y", " ", "a", "w", "f", "u", "l", ".">>) >>

\* the six chunks of the scenario were read and the source closed
C15_Witness ==
    /\ frags = ScenarioFrags
    /\ src_end = "closed"
    /\ Len(events) = 3

(* ---------------- the synthesis results ---------------- *)
\* x and y are the same reference, or both None
SameRef(x, y) == IF x = None \/ y = None THEN x = None /\ y = None ELSE x = y

\* C17: a task of a configured collaborator whose calls did not raise returns
\* a present reference both when polling saw 'complete' and when the wait
\* expired with the take still pending, and the response carries it.
C17_ReferenceOnCompleteAndOnTimeout ==
    \A f \in 1..Len(finished) :
        finished[f].via \in {"complete", "timeout"} =>
            /\ tts_tasks[finished[f].index + 1].state = "done"
            /\ tts_tasks[finished[f].index + 1].result[1] = finished[f].index
            /\ SameRef(tts_tasks[finished[f].index + 1].result[2],
                       Url(finished[f].index))
            /\ (pm_pc = "done" /\ response.kind = "ok") =>
                  Url(finished[f].index) \in ResponseUrls

\* one task returned on 'complete', another one after its wait expired
C17_Witness ==
    /\ pm_pc = "done"
    /\ \E f \in 1..Len(finished) : finished[f].via = "complete"
    /\ \E f \in 1..Len(finished) : finished[f].via = "timeout"
    /\ Cardinality(ResponseUrls) >= 2

\* the sentence indices whose task returned a reference
Present ==
    {tts_tasks[k].index : k \in {j \in TaskIds : ~SameRef(tts_tasks[j].result[2], None)}}
\* the references of the indices in S, in ascending index order
RECURSIVE Ascending(_)
Ascending(S) ==
    IF S = {} THEN <<>>
    ELSE LET lo == CHOOSE i \in S : \A j \in S : i <= j
         IN  <<Url(lo)>> \o Ascending(S \ {lo})

\* C19: whatever order the tasks return in, the references are listed in
\* ascending sentence index with the absent ones removed; audioUrl is the
\* reference of the lowest index that has one, audioUrls exists only for two
\* or more references and then starts with audioUrl; a reference stands at
\* the position of its index only if no lower index is absent.
C19_ReferencesInIndexOrder ==
    (pm_pc = "done" /\ pm_src_end = "closed") =>
        /\ response.kind = "ok"
        /\ SameRef(response.audioUrl,
                   IF Present = {} THEN None ELSE Ascending(Present)[1])
        /\ SameRef(response.audioUrls,
                   IF Cardinality(Present) >= 2 THEN Ascending(Present) ELSE None)
        /\ ~SameRef(response.audioUrls, None) =>
              /\ SameRef(response.audioUrls[1], response.audioUrl)
              /\ \A p \in 1..Len(response.audioUrls) :
                    SameRef(response.audioUrls[p], Url(p - 1))
                        <=> (\A i \in 0..(p - 1) : i \in Present)

\* sentence 0 absent, sentence 2 returned before sentence 1, two references
C19_Witness ==
    /\ pm_pc = "done"
    /\ Len(tts_tasks) = 3
    /\ SameRef(tts_tasks[1].result[2], None)
    /\ SameRef(response.audioUrls, <<Url(1), Url(2)>>)
    /\ SameRef(response.audioUrl, Url(1))
    /\ \E f, g \in 1..Len(finished) :
          f < g /\ finished[f].index = 2 /\ finished[g].index = 1

(* ---------------- termination ---------------- *)
\* the token source has closed or raised (a timeout of the source is a raise)
SourceEnded == src_end # "none" /\ pm_src_end # "none"

\* process_move_stream has emitted its terminal event and stopped; in
\* process_move every task has returned and the join has returned
PipelineStopped ==
    /\ pc = "done"
    /\ events # <<>>
    /\ IsTerminal(events[Len(events)])
    /\ pm_pc = "done"
    /\ \A k \in TaskIds : tts_tasks[k].state = "done"

\* C16: under fair scheduling, once the token source has closed or raised,
\* process_move_stream emits its terminal event and stops, every synthesis
\* task's polling loop ends and the join of process_move returns.
C16_PipelineTerminates == SourceEnded ~> PipelineStopped

\* the join returned after one task ran its wait to the limit and another one
\* ended by an exception
C16_Witness ==
    /\ PipelineStopped
    /\ Len(tts_tasks) >= 2
    /\ \E k \in TaskIds : tts_tasks[k].raised
    /\ \E k \in TaskIds : tts_tasks[k].called /\ ~tts_tasks[k].raised

====
